---- MODULE Spec2Model ----
(***************************************************************************)
(* Model of the tank cost calculator (src/calculator.py, TankCalculator)   *)
(* and of the Telegram bots that drive it (src/bot.py, src/Both.py), and   *)
(* of the history of calculations (src/database.py, Database).             *)
(*                                                                         *)
(* Python floats are modelled as fixed-point integers; every division      *)
(* rounds toward zero, as a float operation rounds symmetrically in sign.  *)
(*   params.volume              litres                                     *)
(*   params.height, diameters   millimetres                                *)
(*   thicknesses                tenths of a millimetre (40 = 4 mm)         *)
(*   angles                     degrees                                    *)
(*   areas                      cm^2                                       *)
(*   steel volumes              cm^3                                       *)
(*   weights                    hundredths of a kilogram                   *)
(*   prices                     roubles per kilogram                       *)
(*   costs                      roubles                                    *)
(*   complexity_coefficient     tenths (35 = 3.5)                          *)
(***************************************************************************)
EXTENDS Integers, Sequences, FiniteSets

VARIABLES
    params,                  \* the TankParams object handed to calculate
    additional_sheets,       \* TankCalculator.additional_sheets
    options,                 \* TankCalculator.options
    complexity_coefficient,  \* TankCalculator.complexity_coefficient
    result,                  \* outcome of the latest call of calculate since the inputs last changed
    prev,                    \* outcome of the call of calculate before that one
    call,                    \* latest direct call of a helper method and what it returned
    bot,                     \* the bot program that runs: "bot.py", "Both.py" or "none"
    user_data,               \* per user: user_data[user_id] of bot.py, context.user_data of Both.py
    conv,                    \* per user: the state the ConversationHandler holds
    buttons,                 \* per user: buttons in the chat that work outside the conversation
    handled,                 \* the latest update a handler took and what the handler did
    run,                     \* per user: what the user has entered in the current run of bot.py
    calculations,            \* the rows of the table 'calculations', in the order they were inserted
    clock,                   \* CURRENT_TIMESTAMP of the database, in seconds
    fetched                  \* the latest call of get_user_calculations and what it returned

wizard == <<bot, user_data, conv, buttons, handled, run>>
database == <<calculations, clock, fetched>>
calculator == <<params, additional_sheets, options, complexity_coefficient, result, prev, call>>
vars == <<params, additional_sheets, options, complexity_coefficient, result, prev, call,
          bot, user_data, conv, buttons, handled, run, calculations, clock, fetched>>

----------------------------------------------------------------------------
(* Arithmetic helpers *)

\* float division by a positive constant, rounded toward zero
Quot(a, b) == IF a >= 0 THEN a \div b ELSE -((-a) \div b)

\* x * math.pi and x / math.pi, with pi taken as 355/113
MulPi(x) == Quot(x * 355, 113)
DivPi(x) == Quot(x * 113, 355)

RECURSIVE SqrtSearch(_, _, _)
SqrtSearch(x, lo, hi) ==
    IF lo >= hi THEN lo
    ELSE LET mid == (lo + hi + 1) \div 2
         IN  IF mid * mid <= x THEN SqrtSearch(x, mid, hi)
                               ELSE SqrtSearch(x, lo, mid - 1)

\* math.sqrt for x >= 0 (integer part)
Sqrt(x) == SqrtSearch(x, 0, 46340)

\* x / math.sin(math.radians(angle / 2)) for 0 < angle < 180, the sine taken by
\* Bhaskara's rational approximation sin(t) = 4t(180-t) / (40500 - t(180-t))
DivSinHalf(x, angle_deg) ==
    LET q == angle_deg * (360 - angle_deg)
    IN  Quot(x * (162000 - q), 4 * q)

----------------------------------------------------------------------------
(* Module constants of calculator.py *)

DENSITY == 7900

PRICES == [m \in {"304", "316", "430", "304_jacket"} |->
             CASE m = "304" -> 350
               [] m = "316" -> 650
               [] m = "430" -> 200
               [] m = "304_jacket" -> 400]

SHEET_SIZES == [s \in {"1000x2000", "1250x2500", "1500x3000"} |->
                  CASE s = "1000x2000" -> [width |-> 1000, height |-> 2000]
                    [] s = "1250x2500" -> [width |-> 1250, height |-> 2500]
                    [] s = "1500x3000" -> [width |-> 1500, height |-> 3000]]

MaterialItem(name, weight, steel_type, price_per_kg, cost) ==
    [name |-> name, weight |-> weight, steel_type |-> steel_type,
     price_per_kg |-> price_per_kg, cost |-> cost]

\* AdditionalOptions(): the dataclass defaults
AdditionalOptions ==
    [luk400 |-> FALSE, luk500 |-> FALSE, level |-> FALSE, valve |-> FALSE, custom_cost |-> 0]

\* weight of steel_cm3 cubic centimetres of steel: volume * DENSITY
SteelWeight(steel_cm3) == Quot(steel_cm3 * DENSITY, 10000)

\* weight * PRICES[...]
Cost(weight, price_per_kg) == Quot(weight * price_per_kg, 100)

----------------------------------------------------------------------------
(* TankCalculator methods *)

\* calculate_geometry: raises ZeroDivisionError when the height is 0 and
\* ValueError (math domain error) when volume / height is negative; a zero
\* volume over a negative height gives -0.0, whose square root is -0.0.
calculate_geometry(p) ==
    IF p.height = 0 THEN [status |-> "ZeroDivisionError"]
    ELSE IF (p.volume > 0 /\ p.height < 0) \/ (p.volume < 0 /\ p.height > 0)
         THEN [status |-> "ValueError: math domain error"]
    ELSE LET ah == IF p.height < 0 THEN -p.height ELSE p.height
             av == IF p.volume < 0 THEN -p.volume ELSE p.volume
             radius == Sqrt(DivPi(Quot(av * 1000000, ah)))
         IN  [status |-> "ok", diameter |-> radius * 2, height |-> p.height,
              volume_m3 |-> p.volume]

calculate_cylinder_weight(diameter, height, thickness_mm) ==
    LET area == MulPi(Quot(diameter * height, 100))
    IN  SteelWeight(Quot(area * thickness_mm, 100))

\* mutant: the upper limit of the angle test is off by one (> 180 for >= 180)
ConeAngle_UpperOffByOne(angle_deg) == IF angle_deg <= 0 \/ angle_deg > 180 THEN 90 ELSE angle_deg

\* calculate_cone_weight, the angle test: an angle outside (0, 180) becomes 90
ConeAngle(angle_deg) == IF angle_deg <= 0 \/ angle_deg >= 180 THEN 90 ELSE angle_deg

\* calculate_cone_weight, after the angle test.  The cone height
\* radius / tan(half angle) is computed and never used; the tangent of a half
\* angle in (0, 90) is not zero, so the division raises nothing.
cone_weight(diameter, angle_deg, thickness_mm) ==
    LET radius == Quot(diameter, 2)
        slant_height == DivSinHalf(radius, angle_deg)
        area == MulPi(Quot(radius * slant_height, 100))
    IN  SteelWeight(Quot(area * thickness_mm, 100))

calculate_cone_weight(diameter, angle_deg, thickness_mm) ==
    cone_weight(diameter, ConeAngle(angle_deg), thickness_mm)

\* mutant: the two cones take each other's thickness
calculate_single_wall_tank_ConesSwapped(p, geometry) ==
    LET cylinder_weight == calculate_cylinder_weight(geometry.diameter, geometry.height, p.thickness_cylinder)
        cylinder_cost == Cost(cylinder_weight, PRICES[p.material])
        top_cone_weight == calculate_cone_weight(geometry.diameter, p.angle_top, p.thickness_bottom)
        top_cone_cost == Cost(top_cone_weight, PRICES[p.material])
        bottom_cone_weight == calculate_cone_weight(geometry.diameter, p.angle_bottom, p.thickness_top)
        bottom_cone_cost == Cost(bottom_cone_weight, PRICES[p.material])
    IN  [materials |-> << MaterialItem("cylinder", cylinder_weight, p.material, PRICES[p.material], cylinder_cost),
                          MaterialItem("top cone", top_cone_weight, p.material, PRICES[p.material], top_cone_cost),
                          MaterialItem("bottom cone", bottom_cone_weight, p.material, PRICES[p.material], bottom_cone_cost) >>,
         total_cost |-> cylinder_cost + top_cone_cost + bottom_cone_cost,
         total_weight |-> cylinder_weight + top_cone_weight + bottom_cone_weight]

calculate_single_wall_tank(p, geometry) ==
    LET cylinder_weight == calculate_cylinder_weight(geometry.diameter, geometry.height, p.thickness_cylinder)
        cylinder_cost == Cost(cylinder_weight, PRICES[p.material])
        top_cone_weight == calculate_cone_weight(geometry.diameter, p.angle_top, p.thickness_top)
        top_cone_cost == Cost(top_cone_weight, PRICES[p.material])
        bottom_cone_weight == calculate_cone_weight(geometry.diameter, p.angle_bottom, p.thickness_bottom)
        bottom_cone_cost == Cost(bottom_cone_weight, PRICES[p.material])
    IN  [materials |-> << MaterialItem("cylinder", cylinder_weight, p.material, PRICES[p.material], cylinder_cost),
                          MaterialItem("top cone", top_cone_weight, p.material, PRICES[p.material], top_cone_cost),
                          MaterialItem("bottom cone", bottom_cone_weight, p.material, PRICES[p.material], bottom_cone_cost) >>,
         total_cost |-> cylinder_cost + top_cone_cost + bottom_cone_cost,
         total_weight |-> cylinder_weight + top_cone_weight + bottom_cone_weight]

\* mutant: the totals of the insulated tank leave out the single-wall base
calculate_insulated_tank_NoBase(p, geometry) ==
    LET base == calculate_single_wall_tank(p, geometry)
        insulation_length == MulPi(geometry.diameter + 90)
        insulation_weight == SteelWeight(Quot(Quot(insulation_length * geometry.height, 100) * 15, 100))
        insulation_cost == Cost(insulation_weight, PRICES["430"])
    IN  [materials |-> Append(base.materials,
                              MaterialItem("insulation shell", insulation_weight, "430", PRICES["430"], insulation_cost)),
         total_cost |-> insulation_cost,
         total_weight |-> insulation_weight]

\* mutant: the insulation shell is priced at the rate of the tank's material
calculate_insulated_tank_TankPrice(p, geometry) ==
    LET base == calculate_single_wall_tank(p, geometry)
        insulation_diameter == geometry.diameter + 90
        insulation_length == MulPi(insulation_diameter)
        insulation_thickness == 15
        insulation_weight == SteelWeight(Quot(Quot(insulation_length * geometry.height, 100) * insulation_thickness, 100))
        insulation_cost == Cost(insulation_weight, PRICES[p.material])
    IN  [materials |-> Append(base.materials,
                              MaterialItem("insulation shell", insulation_weight, "430", PRICES[p.material], insulation_cost)),
         total_cost |-> base.total_cost + insulation_cost,
         total_weight |-> base.total_weight + insulation_weight]

calculate_insulated_tank(p, geometry) ==
    LET base == calculate_single_wall_tank(p, geometry)
        insulation_diameter == geometry.diameter + 90
        insulation_length == MulPi(insulation_diameter)
        insulation_thickness == 15
        insulation_weight == SteelWeight(Quot(Quot(insulation_length * geometry.height, 100) * insulation_thickness, 100))
        insulation_cost == Cost(insulation_weight, PRICES["430"])
    IN  [materials |-> Append(base.materials,
                              MaterialItem("insulation shell", insulation_weight, "430", PRICES["430"], insulation_cost)),
         total_cost |-> base.total_cost + insulation_cost,
         total_weight |-> base.total_weight + insulation_weight]

\* mutant: the jacket covers the full height of the tank
calculate_double_wall_tank_FullHeight(p, geometry) ==
    LET base == calculate_single_wall_tank(p, geometry)
        jacket_diameter == geometry.diameter + 40
        jacket_length == MulPi(jacket_diameter)
        jacket_height == geometry.height
        jacket_thickness == 20
        jacket_cylinder_weight == SteelWeight(Quot(Quot(jacket_length * jacket_height, 100) * jacket_thickness, 100))
        jacket_cylinder_cost == Cost(jacket_cylinder_weight, PRICES["304_jacket"])
        jacket_cone_weight == calculate_cone_weight(jacket_diameter, p.angle_bottom, jacket_thickness)
        jacket_cone_cost == Cost(jacket_cone_weight, PRICES["304_jacket"])
    IN  [materials |-> base.materials \o
                       << MaterialItem("jacket cylinder", jacket_cylinder_weight, "304 (jacket)", PRICES["304_jacket"], jacket_cylinder_cost),
                          MaterialItem("jacket cone", jacket_cone_weight, "304 (jacket)", PRICES["304_jacket"], jacket_cone_cost) >>,
         total_cost |-> base.total_cost + jacket_cylinder_cost + jacket_cone_cost,
         total_weight |-> base.total_weight + jacket_cylinder_weight + jacket_cone_weight]

calculate_double_wall_tank(p, geometry) ==
    LET base == calculate_single_wall_tank(p, geometry)
        jacket_diameter == geometry.diameter + 40
        jacket_length == MulPi(jacket_diameter)
        jacket_height == Quot(geometry.height * 2, 3)
        jacket_thickness == 20
        jacket_cylinder_weight == SteelWeight(Quot(Quot(jacket_length * jacket_height, 100) * jacket_thickness, 100))
        jacket_cylinder_cost == Cost(jacket_cylinder_weight, PRICES["304_jacket"])
        jacket_cone_weight == calculate_cone_weight(jacket_diameter, p.angle_bottom, jacket_thickness)
        jacket_cone_cost == Cost(jacket_cone_weight, PRICES["304_jacket"])
    IN  [materials |-> base.materials \o
                       << MaterialItem("jacket cylinder", jacket_cylinder_weight, "304 (jacket)", PRICES["304_jacket"], jacket_cylinder_cost),
                          MaterialItem("jacket cone", jacket_cone_weight, "304 (jacket)", PRICES["304_jacket"], jacket_cone_cost) >>,
         total_cost |-> base.total_cost + jacket_cylinder_cost + jacket_cone_cost,
         total_weight |-> base.total_weight + jacket_cylinder_weight + jacket_cone_weight]

\* mutant: the boiler jacket is priced at the jacket rate of the double-wall tank
calculate_boiler_JacketPrice(p, geometry) ==
    LET thickness_cylinder == IF p.pressure = 3 THEN 40 ELSE p.thickness_cylinder
        thickness_bottom == IF p.pressure = 3 THEN 40 ELSE p.thickness_bottom
        jacket_cone_thickness == 20
        base == calculate_single_wall_tank(p, geometry)
        jacket_diameter == geometry.diameter + 40
        jacket_length == MulPi(jacket_diameter)
        jacket_height == Quot(geometry.height * 2, 3)
        jacket_thickness == 20
        jacket_cylinder_weight == SteelWeight(Quot(Quot(jacket_length * jacket_height, 100) * jacket_thickness, 100))
        jacket_cylinder_cost == Cost(jacket_cylinder_weight, PRICES["304_jacket"])
        jacket_cone_weight == calculate_cone_weight(jacket_diameter, p.angle_bottom, jacket_cone_thickness)
        jacket_cone_cost == Cost(jacket_cone_weight, PRICES["304_jacket"])
        insulation_diameter == geometry.diameter + 90
        insulation_length == MulPi(insulation_diameter)
        insulation_thickness == 15
        insulation_weight == SteelWeight(Quot(Quot(insulation_length * geometry.height, 100) * insulation_thickness, 100))
        insulation_cost == Cost(insulation_weight, PRICES["430"])
    IN  [materials |-> base.materials \o
                       << MaterialItem("boiler jacket cylinder", jacket_cylinder_weight, "304", PRICES["304_jacket"], jacket_cylinder_cost),
                          MaterialItem("boiler jacket cone", jacket_cone_weight, "304", PRICES["304_jacket"], jacket_cone_cost),
                          MaterialItem("boiler insulation shell", insulation_weight, "430", PRICES["430"], insulation_cost) >>,
         total_cost |-> base.total_cost + jacket_cylinder_cost + jacket_cone_cost + insulation_cost,
         total_weight |-> base.total_weight + jacket_cylinder_weight + jacket_cone_weight + insulation_weight]

\* calculate_boiler: the thicknesses corrected for the pressure are local
\* variables; the inner tank is computed from params as passed in.
calculate_boiler(p, geometry) ==
    LET thickness_cylinder == IF p.pressure = 3 THEN 40 ELSE p.thickness_cylinder
        thickness_bottom == IF p.pressure = 3 THEN 40 ELSE p.thickness_bottom
        jacket_cone_thickness == 20
        base == calculate_single_wall_tank(p, geometry)
        jacket_diameter == geometry.diameter + 40
        jacket_length == MulPi(jacket_diameter)
        jacket_height == Quot(geometry.height * 2, 3)
        jacket_thickness == 20
        jacket_cylinder_weight == SteelWeight(Quot(Quot(jacket_length * jacket_height, 100) * jacket_thickness, 100))
        jacket_cylinder_cost == Cost(jacket_cylinder_weight, PRICES["304"])
        jacket_cone_weight == calculate_cone_weight(jacket_diameter, p.angle_bottom, jacket_cone_thickness)
        jacket_cone_cost == Cost(jacket_cone_weight, PRICES["304"])
        insulation_diameter == geometry.diameter + 90
        insulation_length == MulPi(insulation_diameter)
        insulation_thickness == 15
        insulation_weight == SteelWeight(Quot(Quot(insulation_length * geometry.height, 100) * insulation_thickness, 100))
        insulation_cost == Cost(insulation_weight, PRICES["430"])
    IN  [materials |-> base.materials \o
                       << MaterialItem("boiler jacket cylinder", jacket_cylinder_weight, "304", PRICES["304"], jacket_cylinder_cost),
                          MaterialItem("boiler jacket cone", jacket_cone_weight, "304", PRICES["304"], jacket_cone_cost),
                          MaterialItem("boiler insulation shell", insulation_weight, "430", PRICES["430"], insulation_cost) >>,
         total_cost |-> base.total_cost + jacket_cylinder_cost + jacket_cone_cost + insulation_cost,
         total_weight |-> base.total_weight + jacket_cylinder_weight + jacket_cone_weight + insulation_weight]

\* mutant: the quantity of the sheet is left out
SheetItem_NoQuantity(sheet) ==
    LET size == SHEET_SIZES[sheet.size]
        area == Quot(size.width * size.height, 100)
        volume == Quot(area * sheet.thickness, 100)
        weight == SteelWeight(volume)
        sheet_weight == weight
        sheet_cost == Cost(sheet_weight, PRICES[sheet.material])
    IN  MaterialItem(<<"sheet", sheet.size, sheet.thickness>>, sheet_weight, sheet.material,
                     PRICES[sheet.material], sheet_cost)

\* one line item of calculate_additional_sheets_cost
SheetItem(sheet) ==
    LET size == SHEET_SIZES[sheet.size]
        area == Quot(size.width * size.height, 100)
        volume == Quot(area * sheet.thickness, 100)
        weight == SteelWeight(volume)
        sheet_weight == weight * sheet.quantity
        sheet_cost == Cost(sheet_weight, PRICES[sheet.material])
    IN  MaterialItem(<<"sheet", sheet.size, sheet.thickness>>, sheet_weight, sheet.material,
                     PRICES[sheet.material], sheet_cost)

RECURSIVE SumCost(_)
SumCost(items) == IF items = <<>> THEN 0 ELSE SumCost(SubSeq(items, 1, Len(items) - 1)) + items[Len(items)].cost

\* mutant: the list of sheet items is kept between calls instead of starting empty
calculate_additional_sheets_cost_KeptList(sheets) ==
    LET kept == IF result.status = "ok" THEN result.sheet_materials ELSE <<>>
        materials == kept \o [i \in 1..Len(sheets) |-> SheetItem(sheets[i])]
    IN  [materials |-> materials, total_cost |-> SumCost(materials)]

calculate_additional_sheets_cost(sheets) ==
    LET materials == [i \in 1..Len(sheets) |-> SheetItem(sheets[i])]
    IN  [materials |-> materials, total_cost |-> SumCost(materials)]

\* mutant: the DN500 hatch is priced as the DN400 hatch
calculate_options_cost_Luk500Price(o) ==
    LET luk400 == IF o.luk400 THEN << MaterialItem("hatch DN400", 0, "", 0, 30000) >> ELSE <<>>
        luk500 == IF o.luk500 THEN << MaterialItem("hatch DN500", 0, "", 0, 30000) >> ELSE <<>>
        level == IF o.level THEN << MaterialItem("level gauge", 0, "", 0, 12000) >> ELSE <<>>
        valve == IF o.valve THEN << MaterialItem("disc valve", 0, "", 0, 6000) >> ELSE <<>>
        custom == IF o.custom_cost > 0 THEN << MaterialItem("other", 0, "", 0, o.custom_cost) >> ELSE <<>>
        materials == luk400 \o luk500 \o level \o valve \o custom
    IN  [materials |-> materials, total_cost |-> SumCost(materials)]

\* mutant: the custom cost is added whatever its sign
calculate_options_cost_NoGuard(o) ==
    LET luk400 == IF o.luk400 THEN << MaterialItem("hatch DN400", 0, "", 0, 30000) >> ELSE <<>>
        luk500 == IF o.luk500 THEN << MaterialItem("hatch DN500", 0, "", 0, 40000) >> ELSE <<>>
        level == IF o.level THEN << MaterialItem("level gauge", 0, "", 0, 12000) >> ELSE <<>>
        valve == IF o.valve THEN << MaterialItem("disc valve", 0, "", 0, 6000) >> ELSE <<>>
        custom == << MaterialItem("other", 0, "", 0, o.custom_cost) >>
        materials == luk400 \o luk500 \o level \o valve \o custom
    IN  [materials |-> materials, total_cost |-> SumCost(materials)]

calculate_options_cost(o) ==
    LET luk400 == IF o.luk400 THEN << MaterialItem("hatch DN400", 0, "", 0, 30000) >> ELSE <<>>
        luk500 == IF o.luk500 THEN << MaterialItem("hatch DN500", 0, "", 0, 40000) >> ELSE <<>>
        level == IF o.level THEN << MaterialItem("level gauge", 0, "", 0, 12000) >> ELSE <<>>
        valve == IF o.valve THEN << MaterialItem("disc valve", 0, "", 0, 6000) >> ELSE <<>>
        custom == IF o.custom_cost > 0 THEN << MaterialItem("other", 0, "", 0, o.custom_cost) >> ELSE <<>>
        materials == luk400 \o luk500 \o level \o valve \o custom
    IN  [materials |-> materials, total_cost |-> SumCost(materials)]

\* mutant: the complexity coefficient multiplies the accessories as well
final_aggregation_ComplexityOnAll(geometry, tank, sheet, option, complexity) ==
    LET total_material_cost == tank.total_cost + sheet.total_cost
        cost_with_complexity == Quot(total_material_cost * complexity, 10)
        options_cost_multiplied == Quot(option.total_cost * 25, 10)
        final_cost == Quot((total_material_cost + options_cost_multiplied) * complexity, 10)
    IN  [status |-> "ok",
         geometry |-> geometry,
         materials |-> tank.materials,
         sheet_materials |-> sheet.materials,
         option_materials |-> option.materials,
         tank_cost |-> tank.total_cost,
         sheets_cost |-> sheet.total_cost,
         options_cost |-> option.total_cost,
         total_weight |-> tank.total_weight,
         total_material_cost |-> total_material_cost,
         cost_with_complexity |-> cost_with_complexity,
         options_cost_multiplied |-> options_cost_multiplied,
         final_cost |-> final_cost,
         complexity |-> complexity]

\* mutant: the complexity coefficient is applied to the accessories as well
final_aggregation_ComplexityOnOptions(geometry, tank, sheet, option, complexity) ==
    LET total_material_cost == tank.total_cost + sheet.total_cost
        cost_with_complexity == Quot((total_material_cost + option.total_cost) * complexity, 10)
        options_cost_multiplied == Quot(option.total_cost * 25, 10)
        final_cost == cost_with_complexity + options_cost_multiplied
    IN  [status |-> "ok",
         geometry |-> geometry,
         materials |-> tank.materials,
         sheet_materials |-> sheet.materials,
         option_materials |-> option.materials,
         tank_cost |-> tank.total_cost,
         sheets_cost |-> sheet.total_cost,
         options_cost |-> option.total_cost,
         total_weight |-> tank.total_weight,
         total_material_cost |-> total_material_cost,
         cost_with_complexity |-> cost_with_complexity,
         options_cost_multiplied |-> options_cost_multiplied,
         final_cost |-> final_cost,
         complexity |-> complexity]

\* calculate, from the total material cost to the returned dict
final_aggregation(geometry, tank, sheet, option, complexity) ==
    LET total_material_cost == tank.total_cost + sheet.total_cost
        cost_with_complexity == Quot(total_material_cost * complexity, 10)
        options_cost_multiplied == Quot(option.total_cost * 25, 10)
        final_cost == cost_with_complexity + options_cost_multiplied
    IN  [status |-> "ok",
         geometry |-> geometry,
         materials |-> tank.materials,
         sheet_materials |-> sheet.materials,
         option_materials |-> option.materials,
         tank_cost |-> tank.total_cost,
         sheets_cost |-> sheet.total_cost,
         options_cost |-> option.total_cost,
         total_weight |-> tank.total_weight,
         total_material_cost |-> total_material_cost,
         cost_with_complexity |-> cost_with_complexity,
         options_cost_multiplied |-> options_cost_multiplied,
         final_cost |-> final_cost,
         complexity |-> complexity]

\* calculate: the geometry is computed first, then the tank type is dispatched;
\* an exception of either step ends the call with no result.
calculate(p, sheets, o, complexity) ==
    LET geometry == calculate_geometry(p)
    IN  IF geometry.status # "ok" THEN geometry
        ELSE IF p.tank_type \notin {"single", "insulated", "double", "boiler"}
             THEN [status |-> "ValueError: unknown tank type"]
        ELSE LET tank == CASE p.tank_type = "single" -> calculate_single_wall_tank(p, geometry)
                           [] p.tank_type = "insulated" -> calculate_insulated_tank(p, geometry)
                           [] p.tank_type = "double" -> calculate_double_wall_tank(p, geometry)
                           [] p.tank_type = "boiler" -> calculate_boiler(p, geometry)
                 sheet == calculate_additional_sheets_cost(sheets)
                 option == calculate_options_cost(o)
             IN  final_aggregation(geometry, tank, sheet, option, complexity)

----------------------------------------------------------------------------
(* Inputs *)

MaxSheets == 1

Volumes == {-1000, 0, 1000, 2000}
Heights == {-1000, 0, 500, 1000}
Thicknesses == {<<20, 30, 20>>, <<30, 30, 40>>}
Angles == {<<90, 60>>, <<200, 0>>}
Materials == {"304", "316"}
TankTypes == {"single", "insulated", "double", "boiler", "sphere"}
Pressures == {1, 2, 3}

TankParamsSet ==
    {[volume |-> v, height |-> h,
      thickness_cylinder |-> t[1], thickness_top |-> t[2], thickness_bottom |-> t[3],
      angle_top |-> a[1], angle_bottom |-> a[2],
      material |-> m, tank_type |-> tt, pressure |-> pr] :
        v \in Volumes, h \in Heights, t \in Thicknesses, a \in Angles,
        m \in Materials, tt \in TankTypes, pr \in Pressures}

\* the TankParams a conversation starts from
DefaultParams ==
    [volume |-> 1000, height |-> 1000,
     thickness_cylinder |-> 30, thickness_top |-> 30, thickness_bottom |-> 40,
     angle_top |-> 90, angle_bottom |-> 90,
     material |-> "304", tank_type |-> "single", pressure |-> 1]

SheetChoices ==
    {[material |-> "304", size |-> "1000x2000", thickness |-> 20, quantity |-> 1],
     [material |-> "316", size |-> "1250x2500", thickness |-> 15, quantity |-> 3]}

OptionChoices ==
    {AdditionalOptions,
     [AdditionalOptions EXCEPT !.luk400 = TRUE],
     [AdditionalOptions EXCEPT !.luk500 = TRUE, !.valve = TRUE, !.custom_cost = 1500],
     [luk400 |-> TRUE, luk500 |-> TRUE, level |-> TRUE, valve |-> TRUE, custom_cost |-> 0],
     [AdditionalOptions EXCEPT !.custom_cost = -5000]}

Complexities == {10, 35, 100}

NoResult == [status |-> "none"]
NoCall == [fn |-> "none"]
NoUpdate ==
    [user |-> 0, handler |-> "none", update |-> [type |-> "command", command |-> "none"],
     state |-> "END", outcome |-> "none", calc |-> <<>>]

NoFetch == [user_id |-> 0, limit |-> 0, rows |-> <<>>]

\* Database.init_db on a new file: the table 'calculations' is created empty
init_db ==
    /\ calculations = <<>>
    /\ clock = 0
    /\ fetched = NoFetch

\* the calculator used on its own: no bot runs
NoBot ==
    /\ bot = "none"
    /\ user_data = <<>>
    /\ conv = <<>>
    /\ buttons = <<>>
    /\ handled = NoUpdate
    /\ run = <<>>

----------------------------------------------------------------------------
(* The calculator as a state machine *)

\* TankCalculator.__init__
NewCalculatorState ==
    /\ complexity_coefficient = 35
    /\ additional_sheets = <<>>
    /\ options = AdditionalOptions

Init ==
    /\ params \in TankParamsSet
    /\ NewCalculatorState
    /\ result = NoResult
    /\ prev = NoResult
    /\ call = NoCall
    /\ NoBot
    /\ init_db

\* calculator.additional_sheets.append(sheet)
AddSheet ==
    \E sheet \in SheetChoices :
        /\ Len(additional_sheets) < MaxSheets
        /\ additional_sheets' = Append(additional_sheets, sheet)
        /\ result' = NoResult
        /\ prev' = NoResult
        /\ UNCHANGED <<database, wizard, params, options, complexity_coefficient, call>>

\* the accessory flags and the custom cost are set on calculator.options
SetOptions ==
    \E o \in OptionChoices :
        /\ o # options
        /\ options' = o
        /\ result' = NoResult
        /\ prev' = NoResult
        /\ UNCHANGED <<database, wizard, params, additional_sheets, complexity_coefficient, call>>

\* calculator.complexity_coefficient = complexity
SetComplexity ==
    \E c \in Complexities :
        /\ c # complexity_coefficient
        /\ complexity_coefficient' = c
        /\ result' = NoResult
        /\ prev' = NoResult
        /\ UNCHANGED <<database, wizard, params, additional_sheets, options, call>>

\* calculate as it would be if calculate_boiler wrote the corrected thicknesses
\* back into params
Calculate_CorrectsParams ==
    /\ prev' = result
    /\ result' = calculate(params, additional_sheets, options, complexity_coefficient)
    /\ params' = IF params.tank_type = "boiler" /\ params.pressure = 3
                 THEN [params EXCEPT !.thickness_cylinder = 40, !.thickness_bottom = 40]
                 ELSE params
    /\ UNCHANGED <<database, wizard, additional_sheets, options, complexity_coefficient, call>>

\* results = calculator.calculate(params)
Calculate ==
    /\ prev' = result
    /\ result' = calculate(params, additional_sheets, options, complexity_coefficient)
    /\ UNCHANGED <<database, wizard, params, additional_sheets, options, complexity_coefficient, call>>

Next == AddSheet \/ SetOptions \/ SetComplexity \/ Calculate

Spec == Init /\ [][Next]_vars

----------------------------------------------------------------------------
(* Direct calls of the helper methods on a freshly constructed calculator *)

InitUnit ==
    /\ params = DefaultParams
    /\ NewCalculatorState
    /\ result = NoResult
    /\ prev = NoResult
    /\ call = NoCall
    /\ NoBot
    /\ init_db

ConeDiameters == {0, 500, 1128, 1596, 2256}
ConeAngles == {-30, 0, 30, 60, 90, 120, 150, 179, 180, 200}
ConeThicknesses == {15, 20, 40}

\* weight = calculator.calculate_cone_weight(diameter, angle_deg, thickness_mm)
CallConeWeight ==
    \E d \in ConeDiameters, a \in ConeAngles, t \in ConeThicknesses :
        /\ call' = [fn |-> "calculate_cone_weight", diameter |-> d, angle_deg |-> a,
                    thickness_mm |-> t, ret |-> calculate_cone_weight(d, a, t)]
        /\ UNCHANGED <<database, wizard, params, additional_sheets, options, complexity_coefficient, result, prev>>

NextCone == CallConeWeight

SpecCone == InitUnit /\ [][NextCone]_vars

OptionFlags == {"luk400", "luk500", "level", "valve"}
CustomCosts == {-5000, 0, 1, 1500, 20000}

\* setattr(calculator.options, flag, not getattr(calculator.options, flag))
ToggleOption ==
    \E f \in OptionFlags :
        /\ options' = [options EXCEPT ![f] = ~@]
        /\ call' = NoCall
        /\ UNCHANGED <<database, wizard, params, additional_sheets, complexity_coefficient, result, prev>>

\* calculator.options.custom_cost = c
SetCustomCost ==
    \E c \in CustomCosts :
        /\ c # options.custom_cost
        /\ options' = [options EXCEPT !.custom_cost = c]
        /\ call' = NoCall
        /\ UNCHANGED <<database, wizard, params, additional_sheets, complexity_coefficient, result, prev>>

\* option_materials, options_cost = calculator.calculate_options_cost()
CallOptionsCost ==
    /\ call' = [fn |-> "calculate_options_cost", ret |-> calculate_options_cost(options)]
    /\ UNCHANGED <<database, wizard, params, additional_sheets, options, complexity_coefficient, result, prev>>

NextOptions == ToggleOption \/ SetCustomCost \/ CallOptionsCost

SpecOptions == InitUnit /\ [][NextOptions]_vars

----------------------------------------------------------------------------
(* Claims *)

RECURSIVE SumWeight(_)
SumWeight(items) == IF items = <<>> THEN 0 ELSE SumWeight(SubSeq(items, 1, Len(items) - 1)) + items[Len(items)].weight

KnownTankTypes == {"single", "insulated", "double", "boiler"}

\* C1: whenever calculate returns a result, its final_cost is
\* (tank_cost + sheets_cost) * complexity_coefficient + options_cost * 2.5,
\* with the complexity on the materials only and the 2.5 on the accessories only.
C1_FinalCost ==
    result.status = "ok" =>
        result.final_cost = Quot((result.tank_cost + result.sheets_cost) * complexity_coefficient, 10)
                            + Quot(result.options_cost * 25, 10)

C1_Witness ==
    /\ result.status = "ok"
    /\ result.sheets_cost > 0
    /\ result.options_cost > 0
    /\ complexity_coefficient # 10

\* C2 (as claimed): the result for a boiler of pressure class 3 is the result for
\* the same params with thickness_cylinder and thickness_bottom set to 4 mm.
C2_BoilerHighPressureUses4mm ==
    (result.status = "ok" /\ params.tank_type = "boiler" /\ params.pressure = 3) =>
        result = calculate([params EXCEPT !.thickness_cylinder = 40, !.thickness_bottom = 40],
                           additional_sheets, options, complexity_coefficient)

\* C3: for each of the four known tank types, total_weight is the sum of the
\* weights of the line items of 'materials'.
C3_TotalWeightIsSum ==
    (result.status = "ok" /\ params.tank_type \in KnownTankTypes) =>
        result.total_weight = SumWeight(result.materials)

C3_Witness ==
    /\ result.status = "ok"
    /\ params.tank_type = "insulated"
    /\ result.total_weight > 0

\* C4 (as claimed): for an unknown tank type calculate ends with the
\* unknown-type error, whatever volume and height are.
C4_UnknownTypeAlwaysUnknownTypeError ==
    (result.status # "none" /\ params.tank_type \notin KnownTankTypes) =>
        result.status = "ValueError: unknown tank type"

\* C5 (as claimed): with height <= 0 calculate never returns a result, because
\* calculate_geometry fails.
C5_NonPositiveHeightFails ==
    (result.status # "none" /\ params.height <= 0) =>
        result.status \in {"ZeroDivisionError", "ValueError: math domain error"}

\* C6: calculate_cone_weight with an angle <= 0 or >= 180 returns what it returns
\* for the angle 90; an angle inside (0, 180) is used as given.
C6_ConeAngleDefault ==
    call.fn = "calculate_cone_weight" =>
        /\ (call.angle_deg <= 0 \/ call.angle_deg >= 180) =>
               call.ret = calculate_cone_weight(call.diameter, 90, call.thickness_mm)
        /\ (0 < call.angle_deg /\ call.angle_deg < 180) =>
               call.ret = cone_weight(call.diameter, call.angle_deg, call.thickness_mm)

C6_Witness ==
    /\ call.fn = "calculate_cone_weight"
    /\ call.angle_deg = 180
    /\ call.ret > 0

FlagsCost(o) ==
    (IF o.luk400 THEN 30000 ELSE 0) + (IF o.luk500 THEN 40000 ELSE 0)
    + (IF o.level THEN 12000 ELSE 0) + (IF o.valve THEN 6000 ELSE 0)

\* C8 (as claimed): the accessory cost is the sum of the prices of the set flags
\* plus custom_cost, for every value of custom_cost.
C8_OptionsCostAnyCustom ==
    call.fn = "calculate_options_cost" =>
        call.ret.total_cost = FlagsCost(options) + options.custom_cost

\* C8 (amended): the accessory cost is the sum of the prices of the set flags,
\* plus custom_cost when custom_cost > 0; every accessory item has weight 0 and
\* price_per_kg 0.
C8_OptionsCost ==
    call.fn = "calculate_options_cost" =>
        /\ call.ret.total_cost = FlagsCost(options)
                                 + (IF options.custom_cost > 0 THEN options.custom_cost ELSE 0)
        /\ \A i \in 1..Len(call.ret.materials) :
               call.ret.materials[i].weight = 0 /\ call.ret.materials[i].price_per_kg = 0

C8_Witness ==
    /\ call.fn = "calculate_options_cost"
    /\ options.luk400 /\ options.luk500 /\ options.level /\ options.valve
    /\ options.custom_cost > 0
    /\ Len(call.ret.materials) = 5

\* C9: the insulated result is the single-wall result for the same params and
\* calculator plus one insulation item; for positive volume and height its
\* tank_cost and final_cost are at least those of the single-wall tank.
C9_InsulatedIsSinglePlusShell ==
    (result.status = "ok" /\ params.tank_type = "insulated") =>
        LET single == calculate([params EXCEPT !.tank_type = "single"],
                                additional_sheets, options, complexity_coefficient)
        IN  /\ single.status = "ok"
            /\ Len(result.materials) = 4
            /\ SubSeq(result.materials, 1, 3) = single.materials
            /\ result.tank_cost = single.tank_cost + result.materials[4].cost
            /\ (params.volume > 0 /\ params.height > 0) =>
                   /\ result.tank_cost >= single.tank_cost
                   /\ result.final_cost >= single.final_cost

C9_Witness ==
    /\ result.status = "ok"
    /\ params.tank_type = "insulated"
    /\ params.volume > 0 /\ params.height > 0
    /\ result.materials[4].cost > 0

ValidatedInput ==
    /\ params.volume > 0 /\ params.height > 0
    /\ params.thickness_cylinder > 0 /\ params.thickness_top > 0 /\ params.thickness_bottom > 0
    /\ \A i \in 1..Len(additional_sheets) :
           additional_sheets[i].thickness > 0 /\ additional_sheets[i].quantity > 0
    /\ complexity_coefficient >= 10 /\ complexity_coefficient <= 100

NonNegativeItems(items) == \A i \in 1..Len(items) : items[i].weight >= 0 /\ items[i].cost >= 0

\* C10: for validated input and every topology, every weight and every cost of
\* the result is >= 0.
C10_NonNegative ==
    (result.status = "ok" /\ ValidatedInput) =>
        /\ NonNegativeItems(result.materials)
        /\ NonNegativeItems(result.sheet_materials)
        /\ NonNegativeItems(result.option_materials)
        /\ result.tank_cost >= 0 /\ result.sheets_cost >= 0 /\ result.options_cost >= 0
        /\ result.total_weight >= 0 /\ result.cost_with_complexity >= 0
        /\ result.options_cost_multiplied >= 0 /\ result.final_cost >= 0

C10_Witness ==
    /\ result.status = "ok"
    /\ ValidatedInput
    /\ params.tank_type = "boiler"
    /\ Len(additional_sheets) > 0
    /\ options.custom_cost < 0

----------------------------------------------------------------------------
(* Direct calls of calculate_additional_sheets_cost *)

MaxUnitSheets == 2

\* the AdditionalSheet objects add_sheet accepts
ValidSheets ==
    {[material |-> m, size |-> sz, thickness |-> t, quantity |-> q] :
        m \in {"304", "316"}, sz \in DOMAIN SHEET_SIZES, t \in {15, 30}, q \in {1, 3}}

\* calculator.additional_sheets.append(sheet)
AppendSheet ==
    \E sheet \in ValidSheets :
        /\ Len(additional_sheets) < MaxUnitSheets
        /\ additional_sheets' = Append(additional_sheets, sheet)
        /\ call' = NoCall
        /\ UNCHANGED <<database, wizard, params, options, complexity_coefficient, result, prev>>

\* sheet_materials, sheets_cost = calculator.calculate_additional_sheets_cost()
CallSheetsCost ==
    /\ call' = [fn |-> "calculate_additional_sheets_cost",
                ret |-> calculate_additional_sheets_cost(additional_sheets)]
    /\ UNCHANGED <<database, wizard, params, additional_sheets, options, complexity_coefficient, result, prev>>

NextSheets == AppendSheet \/ CallSheetsCost

SpecSheets == InitUnit /\ [][NextSheets]_vars

----------------------------------------------------------------------------
(* Claims about the line items *)

\* weight of a cylindrical shell given by its circumference: length * height * thickness * DENSITY
ShellWeight(diameter, height, thickness) ==
    SteelWeight(Quot(Quot(MulPi(diameter) * height, 100) * thickness, 100))

PricedItem(item, weight, price) ==
    item.weight = weight /\ item.price_per_kg = price /\ item.cost = Cost(weight, price)

\* C11: a single-wall result has exactly the items cylinder, top cone, bottom
\* cone, in this order, each at the rate of the selected material; the cylinder
\* uses thickness_cylinder, the top cone angle_top and thickness_top, the bottom
\* cone angle_bottom and thickness_bottom.
C11_SingleWallItems ==
    (result.status = "ok" /\ params.tank_type = "single") =>
        LET g == result.geometry
            rate == IF params.material = "304" THEN 350 ELSE 650
        IN  /\ Len(result.materials) = 3
            /\ result.materials[1].name = "cylinder"
            /\ result.materials[2].name = "top cone"
            /\ result.materials[3].name = "bottom cone"
            /\ PricedItem(result.materials[1],
                          calculate_cylinder_weight(g.diameter, g.height, params.thickness_cylinder), rate)
            /\ PricedItem(result.materials[2],
                          calculate_cone_weight(g.diameter, params.angle_top, params.thickness_top), rate)
            /\ PricedItem(result.materials[3],
                          calculate_cone_weight(g.diameter, params.angle_bottom, params.thickness_bottom), rate)

C11_Witness ==
    /\ result.status = "ok"
    /\ params.tank_type = "single"
    /\ params.material = "316"
    /\ params.thickness_top # params.thickness_bottom
    /\ result.materials[2].weight > 0

\* C12: the extra item of an insulated tank is a shell of diameter + 90 mm, of
\* the full cylinder height and 1.5 mm thick, at 200 per kg, whatever the
\* material and the thicknesses of params.
C12_InsulationItem ==
    (result.status = "ok" /\ params.tank_type = "insulated") =>
        /\ Len(result.materials) = 4
        /\ PricedItem(result.materials[4],
                      ShellWeight(result.geometry.diameter + 90, result.geometry.height, 15), 200)

C12_Witness ==
    /\ result.status = "ok"
    /\ params.tank_type = "insulated"
    /\ params.material = "316"
    /\ result.materials[4].weight > 0

\* C13: a double-wall result is the single-wall items followed by the jacket
\* cylinder (diameter + 40 mm, 2/3 of the height, 2 mm) and the jacket bottom
\* cone (same diameter, angle_bottom, 2 mm), both at 400 per kg; tank_cost and
\* total_weight are the single-wall values plus these two items.
C13_DoubleWallItems ==
    (result.status = "ok" /\ params.tank_type = "double") =>
        LET g == result.geometry
            single == calculate_single_wall_tank(params, g)
        IN  /\ Len(result.materials) = 5
            /\ SubSeq(result.materials, 1, 3) = single.materials
            /\ PricedItem(result.materials[4],
                          ShellWeight(g.diameter + 40, Quot(g.height * 2, 3), 20), 400)
            /\ PricedItem(result.materials[5],
                          calculate_cone_weight(g.diameter + 40, params.angle_bottom, 20), 400)
            /\ result.tank_cost = single.total_cost + result.materials[4].cost + result.materials[5].cost
            /\ result.total_weight = single.total_weight + result.materials[4].weight
                                     + result.materials[5].weight

C13_Witness ==
    /\ result.status = "ok"
    /\ params.tank_type = "double"
    /\ params.material = "316"
    /\ result.materials[4].weight > 0
    /\ result.materials[5].weight > 0

C15_SheetItems ==
    call.fn = "calculate_additional_sheets_cost" =>
        /\ Len(call.ret.materials) = Len(additional_sheets)
        /\ \A i \in 1..Len(additional_sheets) :
               LET sheet == additional_sheets[i]
                   width == CASE sheet.size = "1000x2000" -> 1000
                              [] sheet.size = "1250x2500" -> 1250
                              [] sheet.size = "1500x3000" -> 1500
                   height == 2 * width
                   one == SteelWeight(Quot(Quot(width * height, 100) * sheet.thickness, 100))
               IN  PricedItem(call.ret.materials[i], one * sheet.quantity,
                              IF sheet.material = "304" THEN 350 ELSE 650)
        /\ call.ret.total_cost = SumCost(call.ret.materials)
        /\ (additional_sheets = <<>> => call.ret.total_cost = 0)

C15_Witness ==
    /\ call.fn = "calculate_additional_sheets_cost"
    /\ Len(additional_sheets) = 2
    /\ additional_sheets[1] # additional_sheets[2]
    /\ additional_sheets[2].quantity > 1
    /\ call.ret.total_cost > 0

----------------------------------------------------------------------------
(* The Telegram bots (src/bot.py, src/Both.py) as a state machine.         *)
(* An update is a command, a text message split into its words, or the     *)
(* press of an inline button whose callback data is prefix + rest.  The    *)
(* numbers a user types are stored in the units of the calculator above.   *)

Command(name) == [type |-> "command", command |-> name]
Text(words) == [type |-> "text", text |-> words]
Callback(prefix, rest) == [type |-> "callback", prefix |-> prefix, rest |-> rest]

\* float("nan"): a float that is neither below, equal to nor above any number
NaN == -1000000000

\* the numerals of the input alphabet and their values in tenths
Numerals ==
    [tok \in {"-5", "0", "1.5", "2", "3", "4", "5", "60", "90", "200", "304", "316",
              "500", "2000"} |->
        CASE tok = "-5" -> -50
          [] tok = "0" -> 0
          [] tok = "1.5" -> 15
          [] tok = "2" -> 20
          [] tok = "3" -> 30
          [] tok = "4" -> 40
          [] tok = "5" -> 50
          [] tok = "60" -> 600
          [] tok = "90" -> 900
          [] tok = "200" -> 2000
          [] tok = "304" -> 3040
          [] tok = "316" -> 3160
          [] tok = "500" -> 5000
          [] tok = "2000" -> 20000]

\* float(word) raises ValueError unless IsFloat(word); scale is the number of
\* fixed-point units in one unit of the quantity the float is stored as
IsFloat(word) == word \in DOMAIN Numerals \/ word = "nan"
float(word, scale) == IF word = "nan" THEN NaN ELSE Quot(Numerals[word] * scale, 10)

\* int(word) raises ValueError unless IsInt(word)
IsInt(word) == word \in DOMAIN Numerals /\ Numerals[word] % 10 = 0
int(word) == Quot(Numerals[word], 10)

\* float(update.message.text): the whole text must be one number
IsFloatText(words) == Len(words) = 1 /\ IsFloat(words[1])

\* a <= b and a < b of Python floats: False when either side is nan
Le(a, b) == a # NaN /\ b # NaN /\ a <= b
Lt(a, b) == a # NaN /\ b # NaN /\ a < b

\* a dict without keys
EmptyDict == [k \in {} |-> 0]
Get(dict, key, default) == IF key \in DOMAIN dict THEN dict[key] ELSE default
Put(dict, key, value) == [k \in DOMAIN dict \cup {key} |-> IF k = key THEN value ELSE dict[k]]

\* what a handler hands to the calculator: TankCalculator.calculate(params) on a
\* calculator in the given state, or Both.py's calculate_cost(user_data)
Handed(p, sheets, o, complexity) ==
    [params |-> p, additional_sheets |-> sheets, options |-> o,
     complexity_coefficient |-> complexity]

Goto(u, state) == conv' = [conv EXCEPT ![u] = state]

----------------------------------------------------------------------------
(* src/bot.py *)

\* user_data[user_id] as start() builds it; the calculator object is inlined
NewUserData ==
    [params |-> DefaultParams, complexity_coefficient |-> 35,
     additional_sheets |-> <<>>, options |-> AdditionalOptions]

\* a params object that all users share: the assignment reaches every user's entry
SetParam_SharedParams(u, field, value) ==
    user_data' = [v \in DOMAIN user_data |->
                     IF DOMAIN user_data[v] = {} THEN user_data[v]
                     ELSE [user_data[v] EXCEPT !.params[field] = value]]

\* user_data[user_id]['params'].<field> = value
SetParam(u, field, value) == user_data' = [user_data EXCEPT ![u].params[field] = value]

\* calculator.calculate(params) in calculate_and_show_results
HandedByBot(u) ==
    Handed(user_data[u].params, user_data[u].additional_sheets, user_data[u].options,
           user_data[u].complexity_coefficient)

\* the handlers of the steps of the conversation (main, states)
StepHandlers ==
    {"tank_type_selected", "input_volume", "height_selected", "custom_height",
     "material_selected", "pressure_selected", "input_thickness", "input_angles",
     "additional_sheets_decision", "add_sheet", "additional_options_decision",
     "option_selected", "input_complexity"}

\* the values a user has entered: the defaults, overwritten by what the accepted
\* update says, read off the update itself
EnteredValues(e, name, upd) ==
    CASE name = "tank_type_selected" -> [e EXCEPT !.params.tank_type = upd.rest]
      [] name \in {"input_volume"} -> [e EXCEPT !.params.volume = float(upd.text[1], 1)]
      [] name = "height_selected" /\ upd.rest # "custom" ->
            [e EXCEPT !.params.height = float(upd.rest, 1)]
      [] name = "custom_height" -> [e EXCEPT !.params.height = float(upd.text[1], 1)]
      [] name = "material_selected" -> [e EXCEPT !.params.material = upd.rest]
      [] name = "pressure_selected" -> [e EXCEPT !.params.pressure = int(upd.rest)]
      [] name = "input_thickness" ->
            [e EXCEPT !.params.thickness_cylinder = float(upd.text[1], 10),
                      !.params.thickness_top = float(upd.text[2], 10),
                      !.params.thickness_bottom = float(upd.text[3], 10)]
      [] name = "input_angles" ->
            [e EXCEPT !.params.angle_top = float(upd.text[1], 1),
                      !.params.angle_bottom = float(upd.text[2], 1)]
      [] name = "add_sheet" ->
            [e EXCEPT !.additional_sheets =
                Append(@, [material |-> upd.text[1], size |-> upd.text[2],
                           thickness |-> float(upd.text[3], 10),
                           quantity |-> int(upd.text[4])])]
      [] name = "option_selected" /\ upd.rest \in {"luk400", "luk500", "level", "valve"} ->
            [e EXCEPT !.options[upd.rest] = ~@]
      [] name = "input_complexity" ->
            [e EXCEPT !.complexity_coefficient = float(upd.text[1], 10)]
      [] OTHER -> e

\* the run of a user after one more update: /start begins a run with the defaults;
\* an accepted input of a step adds its value and the step it was given at
Entered(u, name, upd, outcome) ==
    IF name = "start" THEN [entered |-> NewUserData, steps |-> <<>>]
    ELSE IF name \in StepHandlers /\ outcome = "ok"
    THEN [entered |-> EnteredValues(run[u].entered, name, upd),
          steps |-> IF run[u].steps # <<>> /\ run[u].steps[Len(run[u].steps)] = conv[u]
                    THEN run[u].steps
                    ELSE Append(run[u].steps, conv[u])]
    ELSE run[u]

\* the record of the update a handler took: the state the conversation was in,
\* whether the handler accepted the input, and what it handed to the calculator;
\* with it the run of the user of bot.py
Took(u, name, upd, outcome, calc) ==
    /\ handled' = [user |-> u, handler |-> name, update |-> upd, state |-> conv[u],
                   outcome |-> outcome, calc |-> calc]
    /\ run' = IF bot = "bot.py"
              THEN [run EXCEPT ![u] = Entered(u, name, upd, outcome)]
              ELSE run
    /\ UNCHANGED database

\* /start: entry point of the conversation and a fallback in every state
start(u, upd) ==
    /\ bot = "bot.py"
    /\ upd = Command("start")
    /\ user_data' = [user_data EXCEPT ![u] = NewUserData]
    /\ Goto(u, "SELECT_TANK_TYPE")
    /\ Took(u, "start", upd, "ok", <<>>)
    /\ UNCHANGED <<bot, buttons, calculator>>

\* /cancel: a fallback of the running conversation
cancel(u, upd) ==
    /\ bot = "bot.py"
    /\ upd = Command("cancel")
    /\ conv[u] # "END"
    /\ Goto(u, "END")
    /\ Took(u, "cancel", upd, "ok", <<>>)
    /\ UNCHANGED <<bot, user_data, buttons, calculator>>

\* /quick: default parameters and a fresh TankCalculator, whatever the conversation does
quick_calculation(u, upd) ==
    /\ bot = "bot.py"
    /\ upd = Command("quick")
    /\ Took(u, "quick_calculation", upd, "ok",
            <<Handed(DefaultParams, <<>>, AdditionalOptions, 35)>>)
    /\ UNCHANGED <<bot, user_data, conv, buttons, calculator>>

\* /help
help_command(u, upd) ==
    /\ bot = "bot.py"
    /\ upd = Command("help")
    /\ Took(u, "help_command", upd, "ok", <<>>)
    /\ UNCHANGED <<bot, user_data, conv, buttons, calculator>>

\* the button under a shown result; no state of the conversation takes it, so the
\* handler outside the conversation does: it calls start(), which rebuilds
\* user_data[user_id] and then fails on update.message, which a button press lacks
new_calculation(u, upd) ==
    /\ bot = "bot.py"
    /\ upd = Callback("new_", "calculation")
    /\ "new_calculation" \in buttons[u]
    /\ user_data' = [user_data EXCEPT ![u] = NewUserData]
    /\ Took(u, "new_calculation", upd, "AttributeError", <<>>)
    /\ UNCHANGED <<bot, conv, buttons, calculator>>

tank_type_selected(u, upd) ==
    /\ bot = "bot.py"
    /\ conv[u] = "SELECT_TANK_TYPE"
    /\ upd.type = "callback" /\ upd.prefix = "tank_"
    /\ SetParam(u, "tank_type", upd.rest)
    /\ Goto(u, "INPUT_VOLUME")
    /\ Took(u, "tank_type_selected", upd, "ok", <<>>)
    /\ UNCHANGED <<bot, buttons, calculator>>

input_volume(u, upd) ==
    /\ bot = "bot.py"
    /\ conv[u] = "INPUT_VOLUME"
    /\ upd.type = "text"
    /\ IF IsFloatText(upd.text) /\ ~Le(float(upd.text[1], 1), 0)
       THEN /\ SetParam(u, "volume", float(upd.text[1], 1))
            /\ Goto(u, "SELECT_HEIGHT")
            /\ Took(u, "input_volume", upd, "ok", <<>>)
       ELSE /\ Took(u, "input_volume", upd, "rejected", <<>>)
            /\ UNCHANGED <<user_data, conv>>
    /\ UNCHANGED <<bot, buttons, calculator>>

height_selected(u, upd) ==
    /\ bot = "bot.py"
    /\ conv[u] = "SELECT_HEIGHT"
    /\ upd.type = "callback" /\ upd.prefix = "height_"
    /\ IF upd.rest = "custom"
       THEN UNCHANGED <<user_data, conv>>
       ELSE /\ SetParam(u, "height", float(upd.rest, 1))
            /\ Goto(u, "SELECT_MATERIAL")
    /\ Took(u, "height_selected", upd, "ok", <<>>)
    /\ UNCHANGED <<bot, buttons, calculator>>

custom_height(u, upd) ==
    /\ bot = "bot.py"
    /\ conv[u] = "SELECT_HEIGHT"
    /\ upd.type = "text"
    /\ IF IsFloatText(upd.text) /\ ~Le(float(upd.text[1], 1), 0)
       THEN /\ SetParam(u, "height", float(upd.text[1], 1))
            /\ Goto(u, "SELECT_MATERIAL")
            /\ Took(u, "custom_height", upd, "ok", <<>>)
       ELSE /\ Took(u, "custom_height", upd, "rejected", <<>>)
            /\ UNCHANGED <<user_data, conv>>
    /\ UNCHANGED <<bot, buttons, calculator>>

material_selected(u, upd) ==
    /\ bot = "bot.py"
    /\ conv[u] = "SELECT_MATERIAL"
    /\ upd.type = "callback" /\ upd.prefix = "material_"
    /\ SetParam(u, "material", upd.rest)
    /\ Goto(u, IF user_data[u].params.tank_type = "boiler"
               THEN "SELECT_PRESSURE" ELSE "INPUT_THICKNESS")
    /\ Took(u, "material_selected", upd, "ok", <<>>)
    /\ UNCHANGED <<bot, buttons, calculator>>

pressure_selected(u, upd) ==
    /\ bot = "bot.py"
    /\ conv[u] = "SELECT_PRESSURE"
    /\ upd.type = "callback" /\ upd.prefix = "pressure_"
    /\ SetParam(u, "pressure", int(upd.rest))
    /\ Goto(u, "INPUT_THICKNESS")
    /\ Took(u, "pressure_selected", upd, "ok", <<>>)
    /\ UNCHANGED <<bot, buttons, calculator>>

\* every word of the text is a float
AllFloats(words) == \A i \in 1..Len(words) : IsFloat(words[i])

\* input_thickness as it would be if it stored each thickness as soon as it is parsed
input_thickness_StoresEach(u, upd) ==
    /\ bot = "bot.py"
    /\ conv[u] = "INPUT_THICKNESS"
    /\ upd.type = "text"
    /\ IF /\ Len(upd.text) = 3
          /\ AllFloats(upd.text)
          /\ ~ \E i \in 1..3 : Le(float(upd.text[i], 10), 0)
       THEN /\ user_data' = [user_data EXCEPT
                                ![u].params.thickness_cylinder = float(upd.text[1], 10),
                                ![u].params.thickness_top = float(upd.text[2], 10),
                                ![u].params.thickness_bottom = float(upd.text[3], 10)]
            /\ Goto(u, "INPUT_ANGLES")
            /\ Took(u, "input_thickness", upd, "ok", <<>>)
       ELSE /\ Took(u, "input_thickness", upd, "rejected", <<>>)
            /\ user_data' = IF Len(upd.text) = 3 /\ IsFloat(upd.text[1])
                            THEN [user_data EXCEPT
                                    ![u].params.thickness_cylinder = float(upd.text[1], 10)]
                            ELSE user_data
            /\ UNCHANGED conv
    /\ UNCHANGED <<bot, buttons, calculator>>

input_thickness(u, upd) ==
    /\ bot = "bot.py"
    /\ conv[u] = "INPUT_THICKNESS"
    /\ upd.type = "text"
    /\ IF /\ Len(upd.text) = 3
          /\ AllFloats(upd.text)
          /\ ~ \E i \in 1..3 : Le(float(upd.text[i], 10), 0)
       THEN /\ user_data' = [user_data EXCEPT
                                ![u].params.thickness_cylinder = float(upd.text[1], 10),
                                ![u].params.thickness_top = float(upd.text[2], 10),
                                ![u].params.thickness_bottom = float(upd.text[3], 10)]
            /\ Goto(u, "INPUT_ANGLES")
            /\ Took(u, "input_thickness", upd, "ok", <<>>)
       ELSE /\ Took(u, "input_thickness", upd, "rejected", <<>>)
            /\ UNCHANGED <<user_data, conv>>
    /\ UNCHANGED <<bot, buttons, calculator>>

input_angles(u, upd) ==
    /\ bot = "bot.py"
    /\ conv[u] = "INPUT_ANGLES"
    /\ upd.type = "text"
    /\ IF /\ Len(upd.text) = 2
          /\ AllFloats(upd.text)
          /\ \A i \in 1..2 : Lt(0, float(upd.text[i], 1)) /\ Lt(float(upd.text[i], 1), 180)
       THEN /\ user_data' = [user_data EXCEPT
                                ![u].params.angle_top = float(upd.text[1], 1),
                                ![u].params.angle_bottom = float(upd.text[2], 1)]
            /\ Goto(u, "ADDITIONAL_SHEETS")
            /\ Took(u, "input_angles", upd, "ok", <<>>)
       ELSE /\ Took(u, "input_angles", upd, "rejected", <<>>)
            /\ UNCHANGED <<user_data, conv>>
    /\ UNCHANGED <<bot, buttons, calculator>>

additional_sheets_decision(u, upd) ==
    /\ bot = "bot.py"
    /\ conv[u] = "ADDITIONAL_SHEETS"
    /\ upd.type = "callback" /\ upd.prefix = "sheets_"
    /\ Goto(u, IF upd.rest = "yes" THEN "ADDITIONAL_SHEETS" ELSE "ADDITIONAL_OPTIONS")
    /\ Took(u, "additional_sheets_decision", upd, "ok", <<>>)
    /\ UNCHANGED <<bot, user_data, buttons, calculator>>

\* the sheets one conversation may add before the model stops adding
MaxWizardSheets == 1

\* the text passes every test of add_sheet
SheetAccepted(words) ==
    /\ Len(words) = 4
    /\ IsFloat(words[3])
    /\ IsInt(words[4])
    /\ words[1] \in {"304", "316"}
    /\ words[2] \in {"1000x2000", "1250x2500", "1500x3000"}
    /\ ~ (Le(float(words[3], 10), 0) \/ int(words[4]) <= 0)

\* the one handler of text messages in ADDITIONAL_SHEETS
add_sheet(u, upd) ==
    /\ bot = "bot.py"
    /\ conv[u] = "ADDITIONAL_SHEETS"
    /\ upd.type = "text"
    /\ SheetAccepted(upd.text) =>
          /\ Len(user_data[u].additional_sheets) < MaxWizardSheets
          /\ Len(run[u].entered.additional_sheets) < MaxWizardSheets
    /\ IF SheetAccepted(upd.text)
       THEN /\ user_data' = [user_data EXCEPT ![u].additional_sheets =
                                Append(@, [material |-> upd.text[1], size |-> upd.text[2],
                                           thickness |-> float(upd.text[3], 10),
                                           quantity |-> int(upd.text[4])])]
            /\ Took(u, "add_sheet", upd, "ok", <<>>)
       ELSE /\ Took(u, "add_sheet", upd, "rejected", <<>>)
            /\ UNCHANGED user_data
    /\ UNCHANGED <<bot, conv, buttons, calculator>>

\* pattern ^options_ : takes options_yes, options_no and options_done
additional_options_decision(u, upd) ==
    /\ bot = "bot.py"
    /\ conv[u] = "ADDITIONAL_OPTIONS"
    /\ upd.type = "callback" /\ upd.prefix = "options_"
    /\ Goto(u, IF upd.rest = "yes" THEN "ADDITIONAL_OPTIONS" ELSE "INPUT_COMPLEXITY")
    /\ Took(u, "additional_options_decision", upd, "ok", <<>>)
    /\ UNCHANGED <<bot, user_data, buttons, calculator>>

\* pattern ^option_ : toggles the option the button names
option_selected(u, upd) ==
    /\ bot = "bot.py"
    /\ conv[u] = "ADDITIONAL_OPTIONS"
    /\ upd.type = "callback" /\ upd.prefix = "option_"
    /\ user_data' = IF upd.rest \in {"luk400", "luk500", "level", "valve"}
                    THEN [user_data EXCEPT ![u].options[upd.rest] = ~@]
                    ELSE user_data
    /\ Took(u, "option_selected", upd, "ok", <<>>)
    /\ UNCHANGED <<bot, conv, buttons, calculator>>

\* the accepted coefficient is stored and calculate_and_show_results runs, which
\* leaves the button "new calculation" under the result
input_complexity(u, upd) ==
    /\ bot = "bot.py"
    /\ conv[u] = "INPUT_COMPLEXITY"
    /\ upd.type = "text"
    /\ IF /\ IsFloatText(upd.text)
          /\ Le(10, float(upd.text[1], 10)) /\ Le(float(upd.text[1], 10), 100)
       THEN /\ user_data' = [user_data EXCEPT
                                ![u].complexity_coefficient = float(upd.text[1], 10)]
            /\ Goto(u, "END")
            /\ buttons' = [buttons EXCEPT ![u] = @ \cup {"new_calculation"}]
            /\ Took(u, "input_complexity", upd, "ok",
                    <<Handed(user_data[u].params, user_data[u].additional_sheets,
                             user_data[u].options, float(upd.text[1], 10))>>)
       ELSE /\ Took(u, "input_complexity", upd, "rejected", <<>>)
            /\ UNCHANGED <<user_data, conv, buttons>>
    /\ UNCHANGED <<bot, calculator>>

\* the handlers main() registers, for one update of one user
BotHandle(u, upd) ==
    \/ start(u, upd)
    \/ cancel(u, upd)
    \/ quick_calculation(u, upd)
    \/ help_command(u, upd)
    \/ new_calculation(u, upd)
    \/ tank_type_selected(u, upd)
    \/ input_volume(u, upd)
    \/ height_selected(u, upd)
    \/ custom_height(u, upd)
    \/ material_selected(u, upd)
    \/ pressure_selected(u, upd)
    \/ input_thickness(u, upd)
    \/ input_angles(u, upd)
    \/ additional_sheets_decision(u, upd)
    \/ add_sheet(u, upd)
    \/ additional_options_decision(u, upd)
    \/ option_selected(u, upd)
    \/ input_complexity(u, upd)

----------------------------------------------------------------------------
(* src/Both.py *)

\* query.data
Data(upd) == upd.prefix \o upd.rest

\* the keyboard Both.py shows at a step of its conversation
BothKeyboard(state) ==
    CASE state = "TYPE" -> {"single", "insulated", "double", "boiler"}
      [] state = "MATERIAL" -> {"304", "316"}
      [] state = "ADD_OPTIONS" -> {"luk400", "luk500", "level", "valve", "continue"}
      [] OTHER -> {}

\* the arguments calculate_cost reads out of context.user_data, with its defaults
HandedByBoth(u) ==
    Handed([volume |-> Get(user_data[u], "volume", 1000),
            height |-> Get(user_data[u], "height", 1000),
            thickness_cylinder |-> Get(user_data[u], "thickness_cyl", 30),
            thickness_top |-> Get(user_data[u], "thickness_top", 30),
            thickness_bottom |-> Get(user_data[u], "thickness_bottom", 40),
            angle_top |-> Get(user_data[u], "angle_top", 90),
            angle_bottom |-> Get(user_data[u], "angle_bottom", 90),
            material |-> Get(user_data[u], "material", "304"),
            tank_type |-> Get(user_data[u], "tank_type", "single"),
            pressure |-> 1],
           <<>>,
           [luk400 |-> Get(Get(user_data[u], "options", EmptyDict), "luk400", FALSE),
            luk500 |-> Get(Get(user_data[u], "options", EmptyDict), "luk500", FALSE),
            level |-> Get(Get(user_data[u], "options", EmptyDict), "level", FALSE),
            valve |-> Get(Get(user_data[u], "options", EmptyDict), "valve", FALSE),
            custom_cost |-> 0],
           Get(user_data[u], "complexity", 35))

\* how calculator.calculate_cost(context.user_data) ends: Both.py's
\* calculate_geometry divides by the height and takes a square root, and
\* PRICES[material] needs a known material
calculate_cost_status(h) ==
    IF h.params.height = 0 THEN "ZeroDivisionError"
    ELSE IF \/ Lt(h.params.volume, 0) /\ Lt(0, h.params.height)
            \/ Lt(0, h.params.volume) /\ Lt(h.params.height, 0)
         THEN "ValueError"
    ELSE IF h.params.material \notin {"304", "316", "430", "304_jacket"} THEN "KeyError"
    ELSE "ok"

\* Both.py's TankCalculator.calculate_cost on the values HandedByBoth reads from
\* user_data: its calculate_geometry, calculate_cylinder_weight and
\* calculate_cone_weight (Both.py:22-49) are those of calculator.py line by line;
\* tank_type is read and never used, and the weight of the shell is priced as a whole
calculate_cost(h) ==
    IF calculate_cost_status(h) # "ok" THEN [status |-> calculate_cost_status(h)]
    ELSE LET geometry == calculate_geometry(h.params)
             cylinder_weight == calculate_cylinder_weight(geometry.diameter, geometry.height,
                                                          h.params.thickness_cylinder)
             top_cone_weight == calculate_cone_weight(geometry.diameter, h.params.angle_top,
                                                      h.params.thickness_top)
             bottom_cone_weight == calculate_cone_weight(geometry.diameter, h.params.angle_bottom,
                                                         h.params.thickness_bottom)
             total_weight == cylinder_weight + top_cone_weight + bottom_cone_weight
             material_cost == Cost(total_weight, PRICES[h.params.material])
             cost_with_complexity == Quot(material_cost * h.complexity_coefficient, 10)
             options_cost == (IF h.options.luk400 THEN 30000 ELSE 0)
                             + (IF h.options.luk500 THEN 40000 ELSE 0)
                             + (IF h.options.level THEN 12000 ELSE 0)
                             + (IF h.options.valve THEN 6000 ELSE 0)
             total_cost == cost_with_complexity + Quot(options_cost * 25, 10)
         IN  [status |-> "ok",
              geometry |-> geometry,
              weights |-> [cylinder |-> cylinder_weight, top_cone |-> top_cone_weight,
                           bottom_cone |-> bottom_cone_weight, total |-> total_weight],
              costs |-> [material |-> material_cost, with_complexity |-> cost_with_complexity,
                         options |-> options_cost,
                         options_x2_5 |-> Quot(options_cost * 25, 10),
                         total |-> total_cost]]

\* /start: the entry point, taken only while no conversation runs;
\* context.user_data is left as it is
Both_start(u, upd) ==
    /\ bot = "Both.py"
    /\ upd = Command("start")
    /\ conv[u] = "END"
    /\ Goto(u, "TYPE")
    /\ Took(u, "start", upd, "ok", <<>>)
    /\ UNCHANGED <<bot, user_data, buttons, calculator>>

\* /cancel: the fallback of the running conversation
Both_cancel(u, upd) ==
    /\ bot = "Both.py"
    /\ upd = Command("cancel")
    /\ conv[u] # "END"
    /\ Goto(u, "END")
    /\ Took(u, "cancel", upd, "ok", <<>>)
    /\ UNCHANGED <<bot, user_data, buttons, calculator>>

\* CallbackQueryHandler without a pattern: any button press is taken; users press
\* the buttons of the keyboard the step shows
Both_tank_type_selected(u, upd) ==
    /\ bot = "Both.py"
    /\ conv[u] = "TYPE"
    /\ upd.type = "callback" /\ Data(upd) \in BothKeyboard(conv[u])
    /\ user_data' = [user_data EXCEPT ![u] = Put(@, "tank_type", Data(upd))]
    /\ Goto(u, "VOLUME")
    /\ Took(u, "tank_type_selected", upd, "ok", <<>>)
    /\ UNCHANGED <<bot, buttons, calculator>>

volume_entered(u, upd) ==
    /\ bot = "Both.py"
    /\ conv[u] = "VOLUME"
    /\ upd.type = "text"
    /\ IF IsFloatText(upd.text) /\ ~Le(float(upd.text[1], 1), 0)
       THEN /\ user_data' = [user_data EXCEPT ![u] = Put(@, "volume", float(upd.text[1], 1))]
            /\ Goto(u, "HEIGHT")
            /\ Took(u, "volume_entered", upd, "ok", <<>>)
       ELSE /\ Took(u, "volume_entered", upd, "rejected", <<>>)
            /\ UNCHANGED <<user_data, conv>>
    /\ UNCHANGED <<bot, buttons, calculator>>

\* any float is stored
height_entered(u, upd) ==
    /\ bot = "Both.py"
    /\ conv[u] = "HEIGHT"
    /\ upd.type = "text"
    /\ IF IsFloatText(upd.text)
       THEN /\ user_data' = [user_data EXCEPT ![u] = Put(@, "height", float(upd.text[1], 1))]
            /\ Goto(u, "THICKNESS")
            /\ Took(u, "height_entered", upd, "ok", <<>>)
       ELSE /\ Took(u, "height_entered", upd, "rejected", <<>>)
            /\ UNCHANGED <<user_data, conv>>
    /\ UNCHANGED <<bot, buttons, calculator>>

thickness_entered(u, upd) ==
    /\ bot = "Both.py"
    /\ conv[u] = "THICKNESS"
    /\ upd.type = "text"
    /\ IF Len(upd.text) = 3 /\ AllFloats(upd.text)
       THEN /\ user_data' = [user_data EXCEPT ![u] =
                                Put(Put(Put(@, "thickness_cyl", float(upd.text[1], 10)),
                                        "thickness_top", float(upd.text[2], 10)),
                                    "thickness_bottom", float(upd.text[3], 10))]
            /\ Goto(u, "ANGLES")
            /\ Took(u, "thickness_entered", upd, "ok", <<>>)
       ELSE /\ Took(u, "thickness_entered", upd, "rejected", <<>>)
            /\ UNCHANGED <<user_data, conv>>
    /\ UNCHANGED <<bot, buttons, calculator>>

angles_entered(u, upd) ==
    /\ bot = "Both.py"
    /\ conv[u] = "ANGLES"
    /\ upd.type = "text"
    /\ IF Len(upd.text) = 2 /\ AllFloats(upd.text)
       THEN /\ user_data' = [user_data EXCEPT ![u] =
                                Put(Put(@, "angle_top", float(upd.text[1], 1)),
                                    "angle_bottom", float(upd.text[2], 1))]
            /\ Goto(u, "MATERIAL")
            /\ Took(u, "angles_entered", upd, "ok", <<>>)
       ELSE /\ Took(u, "angles_entered", upd, "rejected", <<>>)
            /\ UNCHANGED <<user_data, conv>>
    /\ UNCHANGED <<bot, buttons, calculator>>

Both_material_selected(u, upd) ==
    /\ bot = "Both.py"
    /\ conv[u] = "MATERIAL"
    /\ upd.type = "callback" /\ Data(upd) \in BothKeyboard(conv[u])
    /\ user_data' = [user_data EXCEPT ![u] = Put(@, "material", Data(upd))]
    /\ Goto(u, "COMPLEXITY")
    /\ Took(u, "material_selected", upd, "ok", <<>>)
    /\ UNCHANGED <<bot, buttons, calculator>>

\* rejected when complexity < 1 or complexity > 10
complexity_entered(u, upd) ==
    /\ bot = "Both.py"
    /\ conv[u] = "COMPLEXITY"
    /\ upd.type = "text"
    /\ IF /\ IsFloatText(upd.text)
          /\ ~ (Lt(float(upd.text[1], 10), 10) \/ Lt(100, float(upd.text[1], 10)))
       THEN /\ user_data' = [user_data EXCEPT ![u] =
                                Put(@, "complexity", float(upd.text[1], 10))]
            /\ Goto(u, "ADD_OPTIONS")
            /\ Took(u, "complexity_entered", upd, "ok", <<>>)
       ELSE /\ Took(u, "complexity_entered", upd, "rejected", <<>>)
            /\ UNCHANGED <<user_data, conv>>
    /\ UNCHANGED <<bot, buttons, calculator>>

\* 'continue' runs calculate(); a calculation that raises leaves the conversation
\* where it is; any other button toggles context.user_data['options'][data]
options_selected(u, upd) ==
    /\ bot = "Both.py"
    /\ conv[u] = "ADD_OPTIONS"
    /\ upd.type = "callback" /\ Data(upd) \in BothKeyboard(conv[u])
    /\ IF Data(upd) = "continue"
       THEN /\ Took(u, "options_selected", upd, calculate_cost_status(HandedByBoth(u)),
                    <<HandedByBoth(u)>>)
            /\ Goto(u, IF calculate_cost_status(HandedByBoth(u)) = "ok"
                       THEN "END" ELSE "ADD_OPTIONS")
            /\ UNCHANGED user_data
       ELSE /\ user_data' = [user_data EXCEPT ![u] =
                                Put(@, "options",
                                    Put(Get(@, "options", EmptyDict), Data(upd),
                                        ~Get(Get(@, "options", EmptyDict), Data(upd), FALSE)))]
            /\ Took(u, "options_selected", upd, "ok", <<>>)
            /\ UNCHANGED conv
    /\ UNCHANGED <<bot, buttons, calculator>>

\* /calculate: registered outside the conversation, taken in every state
Both_calculate(u, upd) ==
    /\ bot = "Both.py"
    /\ upd = Command("calculate")
    /\ Took(u, "calculate", upd, calculate_cost_status(HandedByBoth(u)), <<HandedByBoth(u)>>)
    /\ UNCHANGED <<bot, user_data, conv, buttons, calculator>>

\* the handlers main() registers, for one update of one user
BothHandle(u, upd) ==
    \/ Both_start(u, upd)
    \/ Both_cancel(u, upd)
    \/ Both_calculate(u, upd)
    \/ Both_tank_type_selected(u, upd)
    \/ volume_entered(u, upd)
    \/ height_entered(u, upd)
    \/ thickness_entered(u, upd)
    \/ angles_entered(u, upd)
    \/ Both_material_selected(u, upd)
    \/ complexity_entered(u, upd)
    \/ options_selected(u, upd)

----------------------------------------------------------------------------
(* The updates users send, and the two bots as specifications *)

NumberTexts == {<<"5">>, <<"0">>, <<"-5">>, <<"nan">>}
ThicknessTexts == {<<"2", "3", "2">>, <<"2", "nan", "2">>, <<"2", "0", "2">>}
AngleTexts == {<<"90", "60">>, <<"200", "90">>}
\* "gotovo" stands for the word the prompt of add_sheet asks for
SheetTexts ==
    {<<"304", "1000x2000", "2", "2">>, <<"316", "1250x2500", "nan", "3">>,
     <<"304", "1000x2000", "2", "1.5">>, <<"gotovo">>}

\* the updates of the single-user specification: commands, buttons of the
\* keyboards of both bots, and texts
Updates ==
    {Command(c) : c \in {"start", "cancel", "quick", "help", "calculate"}}
    \cup {Callback("tank_", r) : r \in {"single", "boiler"}}
    \cup {Callback("height_", r) : r \in {"500", "custom"}}
    \cup {Callback("material_", r) : r \in {"316"}}
    \cup {Callback("pressure_", r) : r \in {"3"}}
    \cup {Callback("sheets_", r) : r \in {"yes", "no"}}
    \cup {Callback("options_", r) : r \in {"yes", "done"}}
    \cup {Callback("option_", r) : r \in {"valve"}}
    \cup {Callback("new_", "calculation")}
    \cup {Callback("", r) : r \in {"single", "boiler", "316", "luk400", "continue"}}
    \cup {Text(t) : t \in NumberTexts \cup ThicknessTexts \cup AngleTexts \cup SheetTexts}

\* a short alphabet, for several users at once
FewUpdates ==
    {Command("start"), Command("cancel"), Command("quick"), Command("help"),
     Command("calculate"),
     Callback("tank_", "boiler"), Callback("height_", "500"), Callback("material_", "316"),
     Callback("pressure_", "3"), Callback("sheets_", "no"), Callback("option_", "valve"),
     Callback("options_", "done"), Callback("new_", "calculation"),
     Callback("", "boiler"), Callback("", "316"), Callback("", "luk400"),
     Callback("", "continue"),
     Text(<<"5">>), Text(<<"2", "3", "2">>), Text(<<"90", "60">>)}

\* the second user goes only through the first half of the steps
OtherUpdates ==
    {Command("start"), Command("calculate"), Callback("tank_", "boiler"),
     Callback("", "boiler"), Callback("height_", "500"), Callback("material_", "316"),
     Callback("pressure_", "3"), Text(<<"5">>), Text(<<"2", "3", "2">>)}

Users == {1}
TwoUsers == {1, 2}
UpdatesOf(u) == IF u = 1 THEN FewUpdates ELSE OtherUpdates

\* no user has talked to the bot yet
InitWizard(users) ==
    /\ bot \in {"bot.py", "Both.py"}
    /\ user_data = [u \in users |-> EmptyDict]
    /\ conv = [u \in users |-> "END"]
    /\ buttons = [u \in users |-> {}]
    /\ handled = NoUpdate
    /\ run = [u \in users |-> [entered |-> EmptyDict, steps |-> <<>>]]
    /\ params = DefaultParams
    /\ NewCalculatorState
    /\ result = NoResult
    /\ prev = NoResult
    /\ call = NoCall
    /\ init_db

\* the application takes the updates one at a time
Handle(u, upd) == BotHandle(u, upd) \/ BothHandle(u, upd)

InitOneUser == InitWizard(Users)
NextWizard == \E u \in Users : \E upd \in Updates : Handle(u, upd)
SpecWizard == InitOneUser /\ [][NextWizard]_vars

InitTwoUsers == InitWizard(TwoUsers)
NextUsers == \E u \in TwoUsers : \E upd \in UpdatesOf(u) : Handle(u, upd)
SpecUsers == InitTwoUsers /\ [][NextUsers]_vars

----------------------------------------------------------------------------
(* Claims about the bots *)

\* the value a user has stored under a key of the parameters, or the default
Stored(u, key, default) ==
    IF bot = "bot.py"
    THEN IF DOMAIN user_data[u] = {} THEN default ELSE user_data[u].params[key]
    ELSE Get(user_data[u], key, default)

\* C16: whichever flow invokes the calculation, the volume and the height handed to
\* the calculator are both > 0, and no user has a non-positive volume or height stored
C16_VolumeAndHeightPositive ==
    /\ \A i \in DOMAIN handled.calc :
          /\ Lt(0, handled.calc[i].params.volume)
          /\ Lt(0, handled.calc[i].params.height)
    /\ \A u \in DOMAIN user_data :
          /\ Lt(0, Stored(u, "volume", 1000))
          /\ Lt(0, Stored(u, "height", 1000))

\* C17: in bot.py every sheet stored in a user's additional_sheets has a material
\* 304 or 316, one of the three sizes, a thickness > 0 and a quantity > 0
C17_StoredSheetsValid ==
    bot = "bot.py" =>
        \A u \in DOMAIN user_data :
            DOMAIN user_data[u] # {} =>
                \A i \in DOMAIN user_data[u].additional_sheets :
                    LET sheet == user_data[u].additional_sheets[i] IN
                    /\ sheet.material \in {"304", "316"}
                    /\ sheet.size \in DOMAIN SHEET_SIZES
                    /\ Lt(0, sheet.thickness)
                    /\ sheet.quantity > 0

\* C18: whenever a flow invokes the calculation, the complexity coefficient handed
\* to it lies in [1, 10]
C18_ComplexityInRange ==
    \A i \in DOMAIN handled.calc :
        /\ Le(10, handled.calc[i].complexity_coefficient)
        /\ Le(handled.calc[i].complexity_coefficient, 100)

\* what the calculation of user u is handed when it reads only u's own data
OwnInputs(u) == IF bot = "bot.py" THEN HandedByBot(u) ELSE HandedByBoth(u)

\* C19: with the steps of two users interleaved, a handler that runs for one user
\* leaves the other user's stored data, conversation state and buttons as they were,
\* and a calculation is handed the acting user's own data (the defaults for /quick)
C19_UsersIndependent ==
    [][\A u \in TwoUsers :
          handled'.user = u =>
              /\ \A v \in TwoUsers \ {u} :
                    /\ user_data'[v] = user_data[v]
                    /\ conv'[v] = conv[v]
                    /\ buttons'[v] = buttons[v]
              /\ \A i \in DOMAIN handled'.calc :
                    handled'.calc[i] =
                        IF handled'.handler = "quick_calculation"
                        THEN Handed(DefaultParams, <<>>, AdditionalOptions, 35)
                        ELSE OwnInputs(u)']_vars

\* user 1 has just been shown a result computed from stored data while user 2
\* holds different stored data in a running conversation
C19_Witness ==
    /\ handled.user = 1
    /\ handled.calc # <<>>
    /\ handled.handler # "quick_calculation"
    /\ DOMAIN user_data[2] # {}
    /\ user_data[2] # user_data[1]
    /\ conv[2] # "END"

\* C20: in bot.py, once the user has answered yes to adding sheets or has added a
\* sheet, the text 'gotovo' moves the conversation from ADDITIONAL_SHEETS to
\* ADDITIONAL_OPTIONS
C20_DoneLeavesSheets ==
    [][\A u \in Users :
          (/\ bot = "bot.py"
           /\ conv[u] = "ADDITIONAL_SHEETS"
           /\ \/ handled.update = Callback("sheets_", "yes")
              \/ Len(user_data[u].additional_sheets) > 0
           /\ handled'.user = u
           /\ handled'.update = Text(<<"gotovo">>)
           /\ handled'.state = "ADDITIONAL_SHEETS")
          => conv'[u] = "ADDITIONAL_OPTIONS"]_vars

\* C21: in bot.py, once the button 'new calculation' has been pressed, the user's
\* data is reset to the defaults and the conversation is at SELECT_TANK_TYPE
C21_NewCalculationStarts ==
    handled.handler = "new_calculation" =>
        /\ user_data[handled.user] = NewUserData
        /\ conv[handled.user] = "SELECT_TANK_TYPE"

\* the steps of a run in the documented order; SELECT_PRESSURE is passed by a boiler
DocumentedOrder(boiler) ==
    <<"SELECT_TANK_TYPE", "INPUT_VOLUME", "SELECT_HEIGHT", "SELECT_MATERIAL">>
    \o (IF boiler THEN <<"SELECT_PRESSURE">> ELSE <<>>)
    \o <<"INPUT_THICKNESS", "INPUT_ANGLES", "ADDITIONAL_SHEETS", "ADDITIONAL_OPTIONS",
         "INPUT_COMPLEXITY">>

\* C22: when the wizard of bot.py invokes the calculation, the steps of the run were
\* passed in the documented order, and the calculation is handed, for every
\* parameter, the sheets, the accessories and the complexity, what the user entered
\* in the current run (the default where a step was optional and nothing was entered)
C22_CalculatesWhatWasEntered ==
    (bot = "bot.py" /\ handled.handler = "input_complexity" /\ handled.calc # <<>>) =>
        LET r == run[handled.user] IN
        /\ r.steps = DocumentedOrder(r.entered.params.tank_type = "boiler")
        /\ handled.calc[1] = Handed(r.entered.params, r.entered.additional_sheets,
                                    r.entered.options, r.entered.complexity_coefficient)

\* C23: in bot.py, after a material is chosen the wizard is at SELECT_PRESSURE if the
\* tank type is 'boiler' and at INPUT_THICKNESS otherwise; after a pressure is chosen
\* it is at INPUT_THICKNESS; and when calculate is invoked for a tank that is not a
\* boiler, params.pressure is 1
C23_PressureStepOnlyForBoiler ==
    bot = "bot.py" =>
        /\ handled.handler = "material_selected" =>
              conv[handled.user] =
                  IF user_data[handled.user].params.tank_type = "boiler"
                  THEN "SELECT_PRESSURE" ELSE "INPUT_THICKNESS"
        /\ handled.handler = "pressure_selected" => conv[handled.user] = "INPUT_THICKNESS"
        /\ (handled.handler = "input_complexity" /\ handled.calc # <<>>
            /\ handled.calc[1].params.tank_type # "boiler") =>
              handled.calc[1].params.pressure = 1

\* what a calculation of the user would be handed now
RunData(u) == IF bot = "bot.py" THEN HandedByBot(u) ELSE HandedByBoth(u)

\* C24: right after /start has begun a calculation (in bot.py and in Both.py) the
\* user has no additional sheets, no accessory selected and the complexity 3.5,
\* whatever earlier calculations of the user selected
C24_StartBeginsAfresh ==
    (handled.handler = "start" /\ handled.outcome = "ok") =>
        /\ RunData(handled.user).additional_sheets = <<>>
        /\ RunData(handled.user).options = AdditionalOptions
        /\ RunData(handled.user).complexity_coefficient = 35

\* C25: in bot.py a rejected input leaves the conversation in the same step and the
\* user's params, additional_sheets, options and complexity_coefficient unchanged;
\* a text taken by input_thickness changes the three thicknesses to the three values
\* of the text or changes nothing, and likewise input_angles the two angles
C25_RejectedChangesNothing ==
    [][bot = "bot.py" =>
        LET u == handled'.user
            t == handled'.update.text
        IN
        /\ handled'.outcome = "rejected" => conv'[u] = conv[u] /\ user_data'[u] = user_data[u]
        /\ handled'.handler = "input_thickness" =>
              \/ user_data'[u] = user_data[u]
              \/ /\ Len(t) = 3
                 /\ user_data'[u].params.thickness_cylinder = float(t[1], 10)
                 /\ user_data'[u].params.thickness_top = float(t[2], 10)
                 /\ user_data'[u].params.thickness_bottom = float(t[3], 10)
        /\ handled'.handler = "input_angles" =>
              \/ user_data'[u] = user_data[u]
              \/ /\ Len(t) = 2
                 /\ user_data'[u].params.angle_top = float(t[1], 1)
                 /\ user_data'[u].params.angle_bottom = float(t[2], 1)]_vars

\* a text of three fields has been rejected by input_thickness
C25_Witness ==
    /\ bot = "bot.py"
    /\ handled.handler = "input_thickness" /\ handled.outcome = "rejected"
    /\ Len(handled.update.text) = 3

\* C26: calculate changes nothing but its return value: over every call, whether it
\* returns a result or raises, params (the thicknesses of a high-pressure boiler
\* included), additional_sheets, options and complexity_coefficient stay as they were
C26_CalculateChangesOnlyResult ==
    [][result' # NoResult =>
          UNCHANGED <<params, additional_sheets, options, complexity_coefficient>>]_vars

\* a boiler over 3 atm whose own thicknesses are not 4 mm has been calculated,
\* with a sheet on the calculator
C26_Witness ==
    /\ result # NoResult /\ result.status = "ok"
    /\ params.tank_type = "boiler" /\ params.pressure = 3
    /\ params.thickness_cylinder # 40
    /\ additional_sheets # <<>>

\* a call of calculate has raised and left params as they were
C26_WitnessFailed ==
    /\ result # NoResult /\ result.status \notin {"ok", "none"}
    /\ params.tank_type = "sphere"

\* cost = weight * price_per_kg for every item of the list
ItemsPriced(items) ==
    \A i \in 1..Len(items) : items[i].cost = Cost(items[i].weight, items[i].price_per_kg)

\* C27: in every result of calculate, for every topology, every item of 'materials'
\* and of 'sheet_materials' has cost = weight * price_per_kg, tank_cost is the sum of
\* the costs of 'materials', sheets_cost the sum of the costs of 'sheet_materials'
\* and options_cost the sum of the costs of 'option_materials'
C27_CostsAreSumsOfItems ==
    result.status = "ok" =>
        /\ ItemsPriced(result.materials)
        /\ ItemsPriced(result.sheet_materials)
        /\ result.tank_cost = SumCost(result.materials)
        /\ result.sheets_cost = SumCost(result.sheet_materials)
        /\ result.options_cost = SumCost(result.option_materials)

\* an insulated tank has been calculated with a sheet and with accessories
C27_Witness ==
    /\ result.status = "ok"
    /\ params.tank_type = "insulated"
    /\ Len(result.materials) = 4
    /\ result.sheet_materials # <<>>
    /\ Len(result.option_materials) >= 2

\* C28: additional sheets and accessories affect only their own parts of the result:
\* with the same params and coefficient, the geometry, 'materials', tank_cost and
\* total_weight are those of the calculation with no sheet and no accessory (so
\* total_weight holds no sheet weight), options_cost is that of the calculation
\* with no sheet, and sheets_cost and cost_with_complexity are those of the
\* calculation with no accessory
C28_SheetsAndOptionsApart ==
    result.status = "ok" =>
        LET bare == calculate(params, <<>>, AdditionalOptions, complexity_coefficient)
            noSheets == calculate(params, <<>>, options, complexity_coefficient)
            noOptions == calculate(params, additional_sheets, AdditionalOptions,
                                   complexity_coefficient)
        IN  /\ result.geometry = bare.geometry
            /\ result.materials = bare.materials
            /\ result.tank_cost = bare.tank_cost
            /\ result.total_weight = bare.total_weight
            /\ result.options_cost = noSheets.options_cost
            /\ result.sheets_cost = noOptions.sheets_cost
            /\ result.cost_with_complexity = noOptions.cost_with_complexity

\* a tank has been calculated with a sheet and with accessories, and the costs of
\* both are in its result
C28_Witness ==
    /\ result.status = "ok"
    /\ additional_sheets # <<>> /\ result.sheets_cost > 0
    /\ options # AdditionalOptions /\ result.options_cost > 0

----------------------------------------------------------------------------
(* The two calculators on the same inputs *)

\* the accessory flags Both.py's keyboard offers; it has no custom cost
FlagChoices == {o \in OptionChoices : o.custom_cost = 0}

InitBoth ==
    /\ params \in TankParamsSet
    /\ additional_sheets = <<>>
    /\ options \in FlagChoices
    /\ complexity_coefficient \in Complexities
    /\ result = NoResult
    /\ prev = NoResult
    /\ call = NoCall
    /\ NoBot
    /\ init_db

\* results = calculator.calculate_cost(context.user_data), with the same values
\* in user_data
CallCalculateCost ==
    /\ call' = [fn |-> "calculate_cost",
                ret |-> calculate_cost(Handed(params, <<>>, options, complexity_coefficient))]
    /\ UNCHANGED <<database, wizard, params, additional_sheets, options, complexity_coefficient,
                   result, prev>>

NextBoth == Calculate \/ CallCalculateCost

SpecBoth == InitBoth /\ [][NextBoth]_vars

\* C29: for the same volume, height, thicknesses, angles, material, tank type,
\* complexity and accessory flags, with no additional sheet and custom_cost 0, the
\* total cost and total weight of Both.py's calculate_cost equal the final_cost and
\* total_weight of calculator.py's calculate
C29_CalculatorsAgree ==
    (result.status = "ok" /\ call.fn = "calculate_cost" /\ call.ret.status = "ok") =>
        /\ call.ret.costs.total = result.final_cost
        /\ call.ret.weights.total = result.total_weight

\* the same for the single-wall tank, where both calculators weigh the same three
\* parts: the weights are equal and the costs differ by less than the rounding of
\* the three prices
BothAgreesOnSingleWall ==
    (result.status = "ok" /\ call.fn = "calculate_cost" /\ call.ret.status = "ok"
     /\ params.tank_type = "single") =>
        /\ call.ret.weights.total = result.total_weight
        /\ call.ret.costs.total - result.final_cost \in -30..30

----------------------------------------------------------------------------
(* src/database.py: the history of calculations *)

MaxRecords == 3
MaxClock == 2

\* json.dumps of a dict of numbers: the text holds, for each key, the numeral
dumps(d) == [k \in DOMAIN d |-> <<"number", d[k]>>]

\* json.loads of such a text
loads(text) == [k \in DOMAIN text |-> text[k][2]]

DbUsers == {7, 8}
Limits == {0, 1, 2, 10}

\* what a caller saves: the params and the results of a calculation
SavedChoices ==
    {[params |-> [volume |-> 1000, height |-> 1000],
      results |-> [final_cost |-> 223379, total_weight |-> 12112]],
     [params |-> [volume |-> 5, height |-> 500],
      results |-> [final_cost |-> 75000, total_weight |-> 0]]}

\* a second passes
Tick ==
    /\ clock < MaxClock
    /\ clock' = clock + 1
    /\ UNCHANGED <<calculations, fetched, wizard, calculator>>

\* Database.save_calculation: the row gets the next id and, by default, the
\* CURRENT_TIMESTAMP, which has a resolution of one second
save_calculation(user_id, p, results, total_cost) ==
    /\ Len(calculations) < MaxRecords
    /\ calculations' = Append(calculations,
                              [id |-> Len(calculations) + 1, user_id |-> user_id,
                               params |-> dumps(p), results |-> dumps(results),
                               total_cost |-> total_cost, created_at |-> clock])
    /\ UNCHANGED <<clock, fetched, wizard, calculator>>

\* WHERE user_id = ?
RowsOf(user_id) == SelectSeq(calculations, LAMBDA row : row.user_id = user_id)

\* ORDER BY created_at DESC: every order of the rows in which created_at never
\* increases; SQL leaves the order of rows with equal created_at open
OrderByCreatedAtDesc(rows) ==
    {[i \in 1..Len(rows) |-> rows[f[i]]] :
        f \in {g \in [1..Len(rows) -> 1..Len(rows)] :
                 /\ \A i, j \in 1..Len(rows) : i # j => g[i] # g[j]
                 /\ \A i, j \in 1..Len(rows) :
                        i < j => rows[g[i]].created_at >= rows[g[j]].created_at}}

\* LIMIT ?
Limit(rows, limit) == SubSeq(rows, 1, IF limit < Len(rows) THEN limit ELSE Len(rows))

\* Database.get_user_calculations
get_user_calculations(user_id, limit) ==
    /\ \E ordered \in OrderByCreatedAtDesc(RowsOf(user_id)) :
          fetched' = [user_id |-> user_id, limit |-> limit,
                      rows |-> [i \in 1..Len(Limit(ordered, limit)) |->
                                   [ordered[i] EXCEPT !.params = loads(@),
                                                      !.results = loads(@)]]]
    /\ UNCHANGED <<calculations, clock, wizard, calculator>>

InitDatabase ==
    /\ params = DefaultParams
    /\ NewCalculatorState
    /\ result = NoResult
    /\ prev = NoResult
    /\ call = NoCall
    /\ NoBot
    /\ init_db

NextDatabase ==
    \/ Tick
    \/ \E user_id \in DbUsers : \E s \in SavedChoices :
          save_calculation(user_id, s.params, s.results, s.results.final_cost)
    \/ \E user_id \in DbUsers : \E limit \in Limits : get_user_calculations(user_id, limit)

SpecDatabase == InitDatabase /\ [][NextDatabase]_vars

\* C30: whatever has been saved, every call of get_user_calculations(user_id, limit)
\* returns only rows saved for that user, at most limit of them, from the most
\* recently saved to the oldest (also when several were saved within the same
\* second), each with the params and results that were saved
C30_HistoryMostRecentFirst ==
    [][fetched' # fetched =>
        LET rows == fetched'.rows IN
        /\ Len(rows) <= fetched'.limit
        /\ \A i \in 1..Len(rows) :
              /\ rows[i].user_id = fetched'.user_id
              /\ \E j \in 1..Len(calculations) :
                    /\ calculations[j].id = rows[i].id
                    /\ calculations[j].user_id = rows[i].user_id
                    /\ calculations[j].params = dumps(rows[i].params)
                    /\ calculations[j].results = dumps(rows[i].results)
        /\ \A i, j \in 1..Len(rows) : i < j => rows[i].id > rows[j].id]_vars

====
